---- MODULE Spec2Model ----
(***************************************************************************)
(* Model of process_contracts.py: the page-importance scan                 *)
(* (find_important_pages / _process_page_chunk), the document reducer      *)
(* (create_short_pdf), the extraction call (extract_data_with_llm), the    *)
(* per-document pipeline (process_contract) and the batch driver (main).   *)
(*                                                                         *)
(* A document is a sequence of pages; a page is described by what          *)
(* extract_text and the OCR fallback yield for it.  The derived            *)
(* "_short.pdf" artifact is the only file the program writes besides the   *)
(* output table.  Python's None is the string "None"; the reduced document *)
(* path is "short.pdf".  The directory holds at most one original PDF;     *)
(* main may be run again on it, which is how a document is processed       *)
(* twice.  find_important_pages is explored for every chunk_size up to     *)
(* MaxChunkSize (process_contract passes the default, 50, which documents  *)
(* of MaxPages pages would never split).                                   *)
(***************************************************************************)
EXTENDS Integers, Sequences, FiniteSets, TLC

\* ---------------------------------------------------------------- bounds
MaxPages == 3        \* longest document explored
MaxChunkSize == 3    \* largest chunk_size argument explored
MaxRuns == 2         \* invocations of main() on the same directory
MaxValue == 13       \* largest magnitude in a duration string

\* ------------------------------------------------------ search and pages
\* The four patterns of the SEARCH_TERMS registry.
SEARCH_TERMS == {"AgreementEnteredInto", "ScheduleJ", "Article19", "ScheduleH"}

\* What a page is: its extract_text() payload and what OCR would give.
\*   text_plain : >= 50 characters of text, no pattern occurs
\*   text_match : >= 50 characters of text, "Agreement is entered into" occurs
\*   ocr_match  : sparse text; OCR succeeds with SCHEDULE J and SCHEDULE H headings
\*   ocr_fail   : sparse text; the OCR engine raises
PageKinds == {"text_plain", "text_match", "ocr_match", "ocr_fail"}

\* page.extract_text(): is the stripped text shorter than 50 characters,
\* and which registry patterns re.search finds in it.
ExtractText(kind) ==
    CASE kind = "text_plain" -> [sparse |-> FALSE, terms |-> {}]
      [] kind = "text_match" -> [sparse |-> FALSE, terms |-> {"AgreementEnteredInto"}]
      [] kind = "ocr_match"  -> [sparse |-> TRUE,  terms |-> {}]
      [] kind = "ocr_fail"   -> [sparse |-> TRUE,  terms |-> {}]

\* The OCR fallback: the recognised text replaces the sparse text; an engine
\* error is caught and the text becomes "".
OcrText(kind) ==
    IF kind = "ocr_match" THEN [sparse |-> FALSE, terms |-> {"ScheduleJ", "ScheduleH"}]
                          ELSE [sparse |-> TRUE,  terms |-> {}]

\* The text the pattern loop sees for a page (lines 39-49).
PageText(kind) ==
    IF ExtractText(kind).sparse THEN OcrText(kind) ELSE ExtractText(kind)

\* The pages one iteration of the page loop adds to local_important_pages
\* (lines 52-56): page_num for every matching term, and page_num + 1 when
\* that page exists.
PageAddsNoNeighbour(pages, page_num) ==
    IF PageText(pages[page_num + 1]).terms \cap SEARCH_TERMS # {} THEN {page_num} ELSE {}
PageAdds(pages, page_num) ==
    UNION { IF term \in PageText(pages[page_num + 1]).terms
              THEN {page_num} \cup (IF page_num + 1 < Len(pages) THEN {page_num + 1} ELSE {})
              ELSE {}
            : term \in SEARCH_TERMS }

Min(a, b) == IF a < b THEN a ELSE b

\* page_chunks (lines 72-74): (i, min(i + chunk_size, num_pages)) for
\* i in range(0, num_pages, chunk_size), in submission order.
RECURSIVE PageChunksFrom(_, _, _)
PageChunksFrom(i, num_pages, size) ==
    IF i >= num_pages THEN <<>>
    ELSE <<[start |-> i, end |-> Min(i + size, num_pages)]>>
           \o PageChunksFrom(i + size, num_pages, size)

PageChunks(num_pages, size) == PageChunksFrom(0, num_pages, size)

\* sorted(list(s)) for a set of page indices.
RECURSIVE Sorted(_)
Sorted(s) ==
    IF s = {} THEN <<>>
    ELSE LET m == CHOOSE x \in s : \A y \in s : x <= y
         IN  <<m>> \o Sorted(s \ {m})

\* The seed of line 66: the first two pages are always kept.
SeedPagesFirstOnly == {0}
SeedPages == {0, 1}

\* important_pages.update(chunk_important_pages) (line 85).
UpdateAssign(important, chunk_pages) == chunk_pages
Update(important, chunk_pages) == important \cup chunk_pages

\* Lines 83-87 for one finished future f: future.result() gives the
\* worker's set, which is merged, or re-raises the worker's exception, which
\* is printed and adds nothing.
MergeAlsoRaised(important, f) == Update(important, f.local)
Merge(important, f) ==
    IF f.status = "returned" THEN Update(important, f.local) ELSE important

SeqRange(s) == { s[i] : i \in DOMAIN s }

\* ----------------------------------------------------------------- state
None == "None"
ShortPath == "short.pdf"          \* os.path.splitext(pdf)[0] + "_short.pdf"
PdfName == "contract.pdf"

VARIABLES
    dir_pdfs,         \* original PDF files os.listdir finds (line 310)
    doc,              \* pages of the source document
    api_key,          \* is GOOGLE_API_KEY set in the environment
    short_file,       \* the file at the derived _short.pdf path
    csv,              \* what this run of main appended to extracted_contract_data.csv
    runs,             \* invocations of main() so far
    pc,               \* position of main / process_contract
    pdf_files,        \* files the for loop of main has still to visit
    pdf_file,         \* the loop variable of main
    extracted_data,   \* process_contract: extracted_data
    short_pdf_path,   \* process_contract: short_pdf_path
    pages_to_keep,    \* process_contract: pages_to_keep
    llm_response,     \* process_contract: llm_response
    chunk_size,       \* find_important_pages: chunk_size (argument)
    important_pages,  \* find_important_pages: important_pages
    page_chunks,      \* find_important_pages: page_chunks
    future,           \* the executor's futures, one per chunk
    cache_hit,        \* history: did this process_contract call take the reuse branch
    create_outcome,   \* history: create_short_pdf in this call: "not_called", "ok", "failed"
    scans,            \* history: find_important_pages calls so far
    writes_ok,        \* history: create_short_pdf calls that wrote the whole artifact
    model_calls,      \* history: generate_content calls so far
    rows_appended,    \* history: rows main appended for the document of this iteration
    arg_start_date,   \* the start_date_str handed to calculate_end_date
    arg_duration,     \* the duration_str handed to calculate_end_date
    end_date,         \* outcome of calculate_end_date of process_contracts.py
    verify_end_date   \* outcome of calculate_end_date of verify_end_date_calculation.py

scanVars == <<chunk_size, important_pages, page_chunks, future>>
dateVars == <<arg_start_date, arg_duration, end_date, verify_end_date>>
envVars == <<dir_pdfs, doc, api_key, dateVars>>
histVars == <<cache_hit, create_outcome, scans, writes_ok, model_calls, rows_appended>>
callVars == <<extracted_data, short_pdf_path, pages_to_keep, llm_response>>
vars == <<dir_pdfs, doc, api_key, short_file, csv, runs, pc, pdf_files, pdf_file,
          extracted_data, short_pdf_path, pages_to_keep, llm_response,
          chunk_size, important_pages, page_chunks, future,
          cache_hit, create_outcome, scans, writes_ok, model_calls, rows_appended,
          arg_start_date, arg_duration, end_date, verify_end_date>>

\* Documents of at most MaxPages pages.
Docs == UNION { [1..n -> PageKinds] : n \in 0..MaxPages }

\* os.path.exists(p) and os.path.getsize(p) > 0 (line 205).
NonEmptyNever(file) == FALSE
NonEmpty(file) == file.state \in {"preexisting", "partial", "complete"}

AbsentFile == [state |-> "absent", pages |-> <<>>]
EmptyFile == [state |-> "empty", pages |-> <<>>]
\* A reduced document left by an earlier session; its pages are not known.
PreexistingFile == [state |-> "preexisting", pages |-> <<>>]

\* -------------------------------------------------------- Python values
\* A Python value is [t |-> type, v |-> payload]; a dict's payload is a
\* function from its keys, a str's payload a record describing the text.
Text(s) == [k |-> "text", txt |-> s]
PyStr(x) == [t |-> "str", v |-> x]
PyNone == [t |-> "none", v |-> 0]
PyList(n) == [t |-> "list", v |-> n]      \* a list of n elements
PyInt(n) == [t |-> "int", v |-> n]
PyDict(f) == [t |-> "dict", v |-> f]
EmptyDict == PyDict(<<>>)
EmptyStr == PyStr(Text(""))

\* bool(x)
Truthy(x) ==
    CASE x.t = "dict" -> DOMAIN x.v # {}
      [] x.t = "str"  -> x.v # Text("")
      [] x.t = "none" -> FALSE
      [] x.t = "list" -> x.v > 0
      [] x.t = "int"  -> x.v # 0

\* d[key] = value
DictSet(d, key, value) ==
    PyDict([x \in DOMAIN d.v \cup {key} |-> IF x = key THEN value ELSE d.v[x]])

\* d.get(key, default) of a dict
DictGet(d, key, default) == IF key \in DOMAIN d.v THEN d.v[key] ELSE default

\* del d[key]
DictDel(d, key) == PyDict([x \in DOMAIN d.v \ {key} |-> d.v[x]])

\* ----------------------------------------------------------- model text
\* The text a model call returns: a JSON body, possibly between a leading
\* ```json fence and a trailing ``` fence.  A body is either undecodable
\* (valid = FALSE) or decodes to value.
ModelText(open, close, valid, value, raw) ==
    [open |-> open, close |-> close, valid |-> valid, value |-> value, raw |-> raw]

NoResponse == ModelText(FALSE, FALSE, FALSE, PyNone, "")
\* The strings extract_data_with_llm returns instead of raising.
ErrNoKey == ModelText(FALSE, FALSE, FALSE, PyNone, "LLM Error: API Key not set")
ErrLlm == ModelText(FALSE, FALSE, FALSE, PyNone, "LLM Error: e")

\* A str holding a model text.
PyText(text) == PyStr([k |-> "model_text", text |-> text])

\* Lines 231-232: both fences present -> the text between them, stripped.
Unwrap(text) ==
    IF text.open /\ text.close
      THEN [text EXCEPT !.open = FALSE, !.close = FALSE]
      ELSE text

\* json.loads(text) succeeds: no fence is left around a decodable body.
Decodes(text) == ~text.open /\ ~text.close /\ text.valid

\* The outcome of a call: a returned value or an exception leaving it.
Returned(x) == [raised |-> FALSE, value |-> x]
Raised == [raised |-> TRUE, value |-> PyNone]
NotCalled == [raised |-> FALSE, value |-> PyNone]

\* ------------------------------------------------------------------ Init
Init ==
    /\ \/ /\ dir_pdfs = <<PdfName>>
          /\ doc \in Docs
          /\ short_file \in {AbsentFile, EmptyFile, PreexistingFile}
       \/ /\ dir_pdfs = <<>>
          /\ doc = <<>>
          /\ short_file = AbsentFile
    /\ chunk_size = 0
    /\ api_key \in BOOLEAN
    /\ csv = <<>>
    /\ runs = 0
    /\ pc = "idle"
    /\ pdf_files = <<>>
    /\ pdf_file = None
    /\ extracted_data = EmptyDict
    /\ short_pdf_path = None
    /\ pages_to_keep = <<>>
    /\ llm_response = NoResponse
    /\ important_pages = {}
    /\ page_chunks = <<>>
    /\ future = <<>>
    /\ cache_hit = FALSE
    /\ create_outcome = "not_called"
    /\ scans = 0
    /\ writes_ok = 0
    /\ model_calls = 0
    /\ rows_appended = 0
    /\ arg_start_date = PyNone
    /\ arg_duration = PyNone
    /\ end_date = NotCalled
    /\ verify_end_date = NotCalled

\* ------------------------------------------------ process_contract entry
\* Lines 198-213: reset the locals, derive the artifact path and take the
\* reuse branch when the artifact exists and is non-empty.
ProcessContract ==
    /\ pc = "process_contract"
    /\ extracted_data' = EmptyDict
    /\ cache_hit' = NonEmpty(short_file)
    /\ create_outcome' = "not_called"
    /\ short_pdf_path' = ShortPath
    /\ pc' = IF NonEmpty(short_file) THEN "path_check" ELSE "find_important_pages"
    /\ UNCHANGED <<envVars, short_file, csv, runs, pdf_files, pdf_file, pages_to_keep,
                   llm_response, scanVars, scans, writes_ok, model_calls, rows_appended>>

\* ---------------------------------------------------- find_important_pages
\* Lines 61-80, called with some chunk_size >= 1: seed the set, open the
\* document, cut it into chunks and submit one future per chunk.  PdfReader
\* raising leaves the function; the exception is caught by process_contract
\* (line 247), which returns its empty extracted_data.
FindImportantPages ==
    /\ pc = "find_important_pages"
    /\ scans' = scans + 1
    /\ \E readable \in BOOLEAN :
         IF readable
           THEN \E size \in 1..MaxChunkSize :
                /\ chunk_size' = size
                /\ important_pages' = SeedPages
                /\ page_chunks' = PageChunks(Len(doc), size)
                /\ future' = [c \in 1..Len(PageChunks(Len(doc), size)) |->
                                [status |-> "queued", local |-> {}]]
                /\ pc' = "as_completed"
           ELSE /\ pc' = "returned"
                /\ UNCHANGED scanVars
    /\ UNCHANGED <<envVars, short_file, csv, runs, pdf_files, pdf_file, callVars,
                   cache_hit, create_outcome, writes_ok, model_calls, rows_appended>>

scanFrame == <<envVars, short_file, csv, runs, pc, pdf_files, pdf_file, callVars,
               chunk_size, important_pages, page_chunks, histVars>>

\* The page loop of _process_page_chunk (lines 34-57) from page_num on,
\* accumulating local_important_pages; it ends at end_page_idx, at the
\* break of line 36, or at page stop, where an exception leaves the loop.
RECURSIVE PageLoop(_, _, _, _, _)
PageLoop(pages, page_num, end_page_idx, stop, local) ==
    IF page_num >= end_page_idx \/ page_num >= Len(pages) \/ page_num = stop
      THEN local
      ELSE PageLoop(pages, page_num + 1, end_page_idx, stop,
                    local \cup PageAdds(pages, page_num))

\* A pool thread runs _process_page_chunk for chunk c (lines 26-59).  The
\* worker reads only its own reader and its own set, so its run is one step.
\* It returns its set, or an exception is raised at page stop: by opening
\* the reader (stop = start), by extract_text or by the pattern search.  The
\* future of a raised worker holds no result; local then records what the
\* worker had collected when it raised.
ProcessPageChunk(c) ==
    /\ pc = "as_completed"
    /\ c \in DOMAIN future
    /\ future[c].status = "queued"
    /\ \E stop \in page_chunks[c].start..page_chunks[c].end :
         future' = [future EXCEPT ![c] =
                      [status |-> IF stop = page_chunks[c].end THEN "returned" ELSE "raised",
                       local |-> PageLoop(doc, page_chunks[c].start, page_chunks[c].end, stop, {})]]
    /\ UNCHANGED scanFrame

\* One iteration of the as_completed loop (lines 82-87): a finished future
\* is taken; its result is merged, or its exception is printed.
AsCompleted(c) ==
    /\ pc = "as_completed"
    /\ c \in DOMAIN future
    /\ future[c].status \in {"returned", "raised"}
    /\ important_pages' = Merge(important_pages, future[c])
    /\ future' = [future EXCEPT ![c].status =
                     IF future[c].status = "returned" THEN "merged" ELSE "logged"]
    /\ UNCHANGED <<envVars, short_file, csv, runs, pc, pdf_files, pdf_file, callVars,
                   chunk_size, page_chunks, histVars>>

\* Lines 89-90 and 209-210: every future has been consumed; the sorted list
\* is returned to process_contract.
ScanReturn ==
    /\ pc = "as_completed"
    /\ \A c \in DOMAIN future : future[c].status \in {"merged", "logged"}
    /\ pages_to_keep' = Sorted(important_pages)
    /\ pc' = "create_short_pdf"
    /\ UNCHANGED <<envVars, short_file, csv, runs, pdf_files, pdf_file, extracted_data,
                   short_pdf_path, llm_response, scanVars, histVars>>

\* ------------------------------------------------------- create_short_pdf
\* The copy loop of lines 101-103: the pages handed to the writer.
WriterPagesNoCheck(page_numbers, num_pages) == page_numbers
WriterPages(page_numbers, num_pages) ==
    SelectSeq(page_numbers, LAMBDA page_num : page_num < num_pages)

\* Lines 96-111 (the scan's locals, dead since it returned, are dropped
\* here).  The reader may fail, open(..., "wb") may fail, and
\* writer.write may fail after the file was truncated, leaving it empty or
\* with part of the output; every exception is caught and None returned.
\* A file written in full is never empty (it holds the PDF structure even
\* with no page).
CreateShortPdf ==
    /\ pc = "create_short_pdf"
    /\ \E outcome \in {"ok", "read_error", "open_error", "write_error"} :
         CASE outcome = "ok" ->
                /\ short_file' = [state |-> "complete",
                                  pages |-> WriterPages(pages_to_keep, Len(doc))]
                /\ short_pdf_path' = ShortPath
                /\ create_outcome' = "ok"
                /\ writes_ok' = writes_ok + 1
           [] outcome \in {"read_error", "open_error"} ->
                /\ short_file' = short_file
                /\ short_pdf_path' = None
                /\ create_outcome' = "failed"
                /\ writes_ok' = writes_ok
           [] outcome = "write_error" ->
                /\ \E left \in {"empty", "partial"} :
                     short_file' = [state |-> left, pages |-> <<>>]
                /\ short_pdf_path' = None
                /\ create_outcome' = "failed"
                /\ writes_ok' = writes_ok
    /\ pc' = "path_check"
    /\ chunk_size' = 0
    /\ important_pages' = {}
    /\ page_chunks' = <<>>
    /\ future' = <<>>
    /\ UNCHANGED <<envVars, csv, runs, pdf_files, pdf_file, extracted_data, pages_to_keep,
                   llm_response, cache_hit, scans, model_calls, rows_appended>>

\* ----------------------------------------------------- calculate_end_date
\* Strings that carry a date or a duration are described by their layout:
\*   DateStr(fmt, y, m, d) : the date y-m-d written in strptime layout fmt
\*   DurStr(lead, n, unit) : "<n> <unit>[s]", after some other words if lead
DateStr(fmt, y, m, d) == [k |-> "date", fmt |-> fmt, y |-> y, m |-> m, d |-> d]
DurStr(lead, n, unit) == [k |-> "duration", lead |-> lead, n |-> n, unit |-> unit]

MAXYEAR == 9999      \* datetime.MAXYEAR

IsLeap(y) == (y % 4 = 0 /\ y % 100 # 0) \/ y % 400 = 0

DaysInMonth(y, m) ==
    CASE m \in {1, 3, 5, 7, 8, 10, 12} -> 31
      [] m \in {4, 6, 9, 11} -> 30
      [] m = 2 -> IF IsLeap(y) THEN 29 ELSE 28

\* Is datetime(y, m, d) a date (otherwise the constructor raises ValueError).
ValidDate(y, m, d) ==
    /\ y \in 1..MAXYEAR
    /\ m \in 1..12
    /\ d >= 1
    /\ d <= DaysInMonth(y, m)

\* datetime.strptime(s, fmt) succeeds: s is written in layout fmt and names
\* a calendar date.
Strptime(s, fmt) ==
    /\ s.k = "date"
    /\ s.fmt = fmt
    /\ ValidDate(s.y, s.m, s.d)

NoDate == <<0, 0, 0>>

\* date + timedelta(days=n), month by month; NoDate when the result passes
\* MAXYEAR (OverflowError).
RECURSIVE AddDays(_, _, _, _)
AddDays(y, m, d, n) ==
    IF y > MAXYEAR THEN NoDate
    ELSE IF d + n <= DaysInMonth(y, m) THEN <<y, m, d + n>>
    ELSE AddDays(IF m = 12 THEN y + 1 ELSE y, IF m = 12 THEN 1 ELSE m + 1, 1,
                 n - (DaysInMonth(y, m) - d + 1))

\* re.match(r"(\d+)\s*(day|month)s?", s, re.IGNORECASE) finds a match:
\* the string starts with the digits and the unit is day or month.
DurationMatch(s) ==
    /\ s.k = "duration"
    /\ ~s.lead
    /\ s.unit \in {"day", "month"}

\* The month branch, lines 177-184.
MonthBranch(sy, sm, sd, value) ==
    LET year0 == sy + (value \div 12)
        month0 == sm + (value % 12)
        year == IF month0 > 12 THEN year0 + 1 ELSE year0
        month == IF month0 > 12 THEN month0 - 12 ELSE month0
        day == Min(sd, IF month < 12 THEN DaysInMonth(year, month) ELSE 31)
    IN  IF year > MAXYEAR
          THEN Raised
          ELSE Returned(PyStr(DateStr("%Y-%m-%d", year, month, day)))

\* calculate_end_date of process_contracts.py (lines 153-190).  A start date
\* or duration that is not a str makes strptime / re.match raise TypeError,
\* which the function does not catch.
calculate_end_date(start_date_str, duration_str) ==
    IF start_date_str.t # "str" THEN Raised
    ELSE IF ~(Strptime(start_date_str.v, "%B %d, %Y") \/ Strptime(start_date_str.v, "%Y-%m-%d"))
      THEN Returned(PyStr(Text("Invalid Start Date Format")))
    ELSE IF duration_str.t # "str" THEN Raised
    ELSE IF ~DurationMatch(duration_str.v)
      THEN Returned(PyStr(Text("Invalid Duration Format")))
    ELSE LET start == start_date_str.v
             value == duration_str.v.n
             unit == duration_str.v.unit
         IN  CASE unit = "day" ->
                    LET end == AddDays(start.y, start.m, start.d, value)
                    IN  IF end = NoDate THEN Raised
                        ELSE Returned(PyStr(DateStr("%Y-%m-%d", end[1], end[2], end[3])))
               [] unit = "month" -> MonthBranch(start.y, start.m, start.d, value)
               [] OTHER -> Returned(PyStr(Text("Invalid Duration Unit")))

\* ------------------------- calculate_end_date, verify_end_date_calculation.py
\* Line 19: commas are deleted and an ordinal suffix after the day's digits
\* (st, nd, rd, th) is dropped, which changes the layout of the string.  The
\* layout "%dth %B %Y" is "16th March 2015".
Cleaned(s) ==
    IF s.k # "date" THEN s
    ELSE CASE s.fmt = "%B %d, %Y" -> [s EXCEPT !.fmt = "%B %d %Y"]
           [] s.fmt = "%dth %B %Y" -> [s EXCEPT !.fmt = "%d %B %Y"]
           [] OTHER -> s

\* Lines 22-27, in the order they are tried.
date_formats == <<"%d-%m-%Y", "%d %B %Y", "%B %Y", "%Y-%m-%d">>

\* Lines 29-37: the first format that parses wins; a format without "%d"
\* gives day 1.  NoDate when none parses (start_date stays None).
RECURSIVE ParseFrom(_, _)
ParseFrom(s, i) ==
    IF i > Len(date_formats) THEN NoDate
    ELSE IF Strptime(s, date_formats[i])
      THEN <<s.y, s.m, IF date_formats[i] = "%B %Y" THEN 1 ELSE s.d>>
    ELSE ParseFrom(s, i + 1)

\* re.search(r"(\d+)\s*(day|month)s?", s, re.IGNORECASE) finds a match:
\* the digits and the unit day or month appear somewhere in the string.
DurationSearch(s) ==
    /\ s.k = "duration"
    /\ s.unit \in {"day", "month"}

\* The month branch, lines 52-65: datetime(next_year, next_month, 1) raises
\* ValueError when next_year passes MAXYEAR.
VerifyMonthBranch(sy, sm, sd, value) ==
    LET total_months == sm + value
        year == sy + ((total_months - 1) \div 12)
        month == ((total_months - 1) % 12) + 1
        next_month == IF month + 1 > 12 THEN 1 ELSE month + 1
        next_year == IF month + 1 > 12 THEN year + 1 ELSE year
    IN  IF next_year > MAXYEAR
          THEN Raised
          ELSE LET last_day_of_month == DaysInMonth(year, month)
                   day == Min(sd, last_day_of_month)
               IN  Returned(PyStr(DateStr("%d-%m-%Y", year, month, day)))

\* calculate_end_date of verify_end_date_calculation.py (lines 7-71).
verify_calculate_end_date(start, duration) ==
    IF start.t # "str" \/ duration.t # "str"
      THEN Returned(PyStr(Text("Invalid Input Type")))
    ELSE LET start_date == ParseFrom(Cleaned(start.v), 1)
         IN  IF start_date = NoDate
               THEN Returned(PyStr(Text("Invalid Start Date Format")))
             ELSE IF ~DurationSearch(duration.v)
               THEN Returned(PyStr(Text("Invalid Duration Format")))
             ELSE LET value == duration.v.n
                      unit == duration.v.unit
                  IN  CASE unit = "day" ->
                             LET end == AddDays(start_date[1], start_date[2],
                                                start_date[3], value)
                             IN  IF end = NoDate THEN Raised
                                 ELSE Returned(PyStr(DateStr("%d-%m-%Y",
                                                     end[1], end[2], end[3])))
                        [] unit = "month" ->
                             VerifyMonthBranch(start_date[1], start_date[2],
                                               start_date[3], value)
                        [] OTHER -> Returned(PyStr(Text("Invalid Duration Unit")))

\* ------------------------------------------------- process_contract, cont.
\* Lines 213-224: without a reduced document path nothing is extracted and
\* the (empty) extracted_data is returned; otherwise the prompt is built.
PathCheckAlways ==
    /\ pc = "path_check"
    /\ pc' = "extract_data_with_llm"
    /\ UNCHANGED <<envVars, short_file, csv, runs, pdf_files, pdf_file, callVars,
                   scanVars, histVars>>
PathCheck ==
    /\ pc = "path_check"
    /\ pc' = IF short_pdf_path # None THEN "extract_data_with_llm" ELSE "returned"
    /\ UNCHANGED <<envVars, short_file, csv, runs, pdf_files, pdf_file, callVars,
                   scanVars, histVars>>

\* Sample objects a model returns.
LocationDict ==
    PyDict([x \in {"State", "District"} |->
              IF x = "State" THEN PyStr(Text("Karnataka")) ELSE PyStr(Text("Belgaum"))])

ObjFull ==
    PyDict([x \in {"Name of the Authority", "Start Date", "Project Duration", "Location"} |->
              CASE x = "Name of the Authority" -> PyStr(Text("NHAI"))
                [] x = "Start Date" -> PyStr(DateStr("%B %d, %Y", 2020, 1, 31))
                [] x = "Project Duration" -> PyStr(DurStr(FALSE, 1, "month"))
                [] x = "Location" -> LocationDict])

ObjDays ==
    PyDict([x \in {"Start Date", "Project Duration", "Location", "Payment Schedule"} |->
              CASE x = "Start Date" -> PyStr(DateStr("%Y-%m-%d", 2018, 10, 15))
                [] x = "Project Duration" -> PyStr(DurStr(FALSE, 730, "day"))
                [] x = "Location" -> PyStr(Text("Karnataka, Belgaum"))
                [] x = "Payment Schedule" -> PyNone])

ObjBadDate ==
    PyDict([x \in {"Start Date", "Project Duration"} |->
              CASE x = "Start Date" -> PyStr(DateStr("%d %B %Y", 2020, 1, 31))
                [] x = "Project Duration" -> PyStr(DurStr(FALSE, 5, "year"))])

ObjNumberDate ==
    PyDict([x \in {"Start Date", "Project Duration"} |->
              CASE x = "Start Date" -> PyInt(2018)
                [] x = "Project Duration" -> PyStr(DurStr(FALSE, 24, "month"))])

ObjFarFuture ==
    PyDict([x \in {"Start Date", "Project Duration"} |->
              CASE x = "Start Date" -> PyStr(DateStr("%Y-%m-%d", 9999, 6, 30))
                [] x = "Project Duration" -> PyStr(DurStr(FALSE, 12, "month"))])

\* Texts a model call may return.
ModelTexts ==
    << ModelText(TRUE,  TRUE,  TRUE,  ObjFull, "obj_full"),
       ModelText(FALSE, FALSE, TRUE,  ObjDays, "obj_days"),
       ModelText(FALSE, FALSE, TRUE,  ObjBadDate, "obj_bad_date"),
       ModelText(FALSE, FALSE, TRUE,  ObjNumberDate, "obj_number_date"),
       ModelText(TRUE,  TRUE,  TRUE,  ObjFarFuture, "obj_far_future"),
       ModelText(FALSE, FALSE, TRUE,  EmptyDict, "{}"),
       ModelText(TRUE,  FALSE, TRUE,  ObjFull, "obj_full"),
       ModelText(TRUE,  TRUE,  FALSE, PyNone, "I could not read the document"),
       ModelText(FALSE, FALSE, FALSE, PyNone, "I could not read the document"),
       ModelText(FALSE, FALSE, TRUE,  PyList(0), "[]"),
       ModelText(FALSE, FALSE, TRUE,  PyList(1), "[1]"),
       ModelText(FALSE, FALSE, TRUE,  PyNone, "null") >>

\* extract_data_with_llm (lines 118-151): without the key the model is not
\* called; opening the reduced document, the call and reading response.text
\* may raise, which is returned as an "LLM Error" string.
ExtractDataWithLlm ==
    /\ pc = "extract_data_with_llm"
    /\ IF ~api_key
         THEN /\ llm_response' = ErrNoKey
              /\ model_calls' = model_calls
         ELSE \E outcome \in {"open_error", "model_error", "ok"} :
                CASE outcome = "open_error" ->
                       /\ llm_response' = ErrLlm
                       /\ model_calls' = model_calls
                  [] outcome = "model_error" ->
                       /\ llm_response' = ErrLlm
                       /\ model_calls' = model_calls + 1
                  [] outcome = "ok" ->
                       /\ \E i \in DOMAIN ModelTexts : llm_response' = ModelTexts[i]
                       /\ model_calls' = model_calls + 1
    /\ pc' = "parse_response"
    /\ UNCHANGED <<envVars, short_file, csv, runs, pdf_files, pdf_file, extracted_data,
                   short_pdf_path, pages_to_keep, scanVars,
                   cache_hit, create_outcome, scans, writes_ok, rows_appended>>

\* Lines 229-236: unwrap, decode, and on JSONDecodeError keep the text
\* under LLM_Raw_Response.
Decoded(text) ==
    IF Decodes(Unwrap(text))
      THEN Unwrap(text).value
      ELSE DictSet(EmptyDict, "LLM_Raw_Response", PyText(Unwrap(text)))

\* Lines 239-245 on the decoded data.  extracted_data.get on a value that
\* is not a dict, and calculate_end_date raising, are caught at line 247:
\* extracted_data is returned as it is at that point.
WithEndDate(data) ==
    IF data.t # "dict" THEN data
    ELSE LET start_date == DictGet(data, "Start Date", PyNone)
             project_duration == DictGet(data, "Project Duration", PyNone)
         IN  IF Truthy(start_date) /\ Truthy(project_duration)
               THEN LET r == calculate_end_date(start_date, project_duration)
                    IN  IF r.raised THEN data
                        ELSE DictSet(data, "End Date", r.value)
               ELSE DictSet(data, "End Date", PyStr(Text("Not Found")))

\* Lines 226-255.
ParseResponse ==
    /\ pc = "parse_response"
    /\ llm_response' = Unwrap(llm_response)
    /\ extracted_data' = WithEndDate(Decoded(llm_response))
    /\ pc' = "returned"
    /\ UNCHANGED <<envVars, short_file, csv, runs, pdf_files, pdf_file, short_pdf_path,
                   pages_to_keep, scanVars, histVars>>

\* ------------------------------------------------------------------- main
\* The fallback column list of lines 299-305.
OutputColumns ==
    << "File Name", "Name of the Authority", "Name of the Contractor",
       "Project Name", "Start Date", "Project Duration", "End Date",
       "Contract Value", "Payment Schedule",
       "Location - State", "Location - District", "Location - Towns covered",
       "Project Milestones List" >>

Header == [col \in SeqRange(OutputColumns) |-> PyStr(Text(col))]

\* Lines 321-333: one value per output column.
ColumnValue(data, col) ==
    CASE col = "Contract Value (Rs Cr)" -> DictGet(data, "Contract Value", EmptyStr)
      [] col \in {"Project Milestones List", "Payment Schedule"} -> DictGet(data, col, EmptyStr)
      [] OTHER -> LET value == DictGet(data, col, EmptyStr)
                  IN  IF value.t # "none" THEN value ELSE EmptyStr

\* Lines 336-345: the Location columns.
LocationValue(data, col, default) ==
    LET location == DictGet(data, "Location", PyNone)
    IN  IF "Location" \in DOMAIN data.v /\ location.t = "dict"
          THEN CASE col = "Location - State" -> DictGet(location, "State", EmptyStr)
                 [] col = "Location - District" -> DictGet(location, "District", EmptyStr)
                 [] col = "Location - Towns covered" -> DictGet(location, "Towns covered", EmptyStr)
        ELSE IF "Location" \in DOMAIN data.v /\ location.t = "str"
          THEN IF col = "Location - State" THEN location ELSE EmptyStr
        ELSE default

\* Lines 321-347: row_data.
RowData(data, file) ==
    [col \in SeqRange(OutputColumns) |->
       IF col = "File Name" THEN PyStr(Text(file))
       ELSE IF col \in {"Location - State", "Location - District", "Location - Towns covered"}
         THEN LocationValue(data, col, ColumnValue(data, col))
       ELSE ColumnValue(data, col)]

\* Lines 262-316: append the header (the file is only ever appended to and
\* never read, so csv starts over with this run's header), list the
\* original PDF files, return when there is none.
MainStart ==
    /\ pc \in {"idle", "crashed"}
    /\ runs < MaxRuns
    /\ runs' = runs + 1
    /\ csv' = <<Header>>
    /\ pdf_files' = dir_pdfs
    /\ pc' = IF dir_pdfs = <<>> THEN "idle" ELSE "for_pdf_file"
    /\ UNCHANGED <<envVars, short_file, pdf_file, callVars, scanVars, histVars>>

\* Line 317: the next file, or line 356 when the list is exhausted.
MainLoop ==
    /\ pc = "for_pdf_file"
    /\ IF pdf_files = <<>>
         THEN /\ pc' = "idle"
              /\ UNCHANGED <<pdf_files, pdf_file, rows_appended>>
         ELSE /\ pdf_file' = Head(pdf_files)
              /\ pdf_files' = Tail(pdf_files)
              /\ rows_appended' = 0
              /\ pc' = "process_contract"
    /\ UNCHANGED <<envVars, short_file, csv, runs, callVars, scanVars,
                   cache_hit, create_outcome, scans, writes_ok, model_calls>>

\* Lines 318-354 (the locals of the finished process_contract call are
\* dropped here): a falsy result appends nothing; a result that is not a
\* dict makes extracted_data.get raise AttributeError, which nothing in main
\* catches; otherwise the row is appended.
MainRow ==
    /\ pc = "returned"
    /\ IF ~Truthy(extracted_data)
         THEN /\ pc' = "for_pdf_file"
              /\ UNCHANGED <<csv, extracted_data, rows_appended>>
         ELSE IF extracted_data.t # "dict"
           THEN /\ pc' = "crashed"
                /\ UNCHANGED <<csv, extracted_data, rows_appended>>
           ELSE /\ csv' = Append(csv, RowData(extracted_data, pdf_file))
                /\ extracted_data' = DictDel(extracted_data, "Location")
                /\ rows_appended' = rows_appended + 1
                /\ pc' = "for_pdf_file"
    /\ short_pdf_path' = None
    /\ pages_to_keep' = <<>>
    /\ llm_response' = NoResponse
    /\ UNCHANGED <<envVars, short_file, runs, pdf_files, pdf_file, scanVars,
                   cache_hit, create_outcome, scans, writes_ok, model_calls>>

\* ---------------------------------------------------------- specification
Next ==
    \/ MainStart
    \/ MainLoop
    \/ ProcessContract
    \/ FindImportantPages
    \/ \E c \in DOMAIN future : ProcessPageChunk(c)
    \/ \E c \in DOMAIN future : AsCompleted(c)
    \/ ScanReturn
    \/ CreateShortPdf
    \/ PathCheck
    \/ ExtractDataWithLlm
    \/ ParseResponse
    \/ MainRow

Spec == Init /\ [][Next]_vars

\* ------------------------------------------ calculate_end_date on its own
\* The two calculate_end_date functions applied to one pair of arguments.
\* Start dates are written in the layouts either function knows, in a layout
\* with an ordinal day, as other text, or are not a str at all; the calendar
\* dates include the ends of short months and of the last years.
StartLayouts ==
    {"%B %d, %Y", "%Y-%m-%d", "%d-%m-%Y", "%d %B %Y", "%dth %B %Y"}
StartYears == {2020, 2100, MAXYEAR}
StartDays == {1, 28, 29, 30, 31}

StartDateStrs ==
    {PyStr(DateStr(f, y, m, d)) :
        f \in StartLayouts, y \in StartYears, m \in 1..12, d \in StartDays}
    \cup {PyStr(DateStr("%B %Y", y, m, 1)) : y \in StartYears, m \in 1..12}
    \cup {PyStr(Text("Not Found")), PyNone}

DurationStrs ==
    {PyStr(DurStr(lead, n, unit)) :
        lead \in BOOLEAN, n \in 0..MaxValue, unit \in {"day", "month", "year"}}
    \cup {PyStr(Text("three months")), PyNone}

pipelineVars == <<dir_pdfs, doc, api_key, short_file, csv, runs, pc, pdf_files,
                  pdf_file, callVars, scanVars, histVars>>

InitDate ==
    /\ dir_pdfs = <<>>
    /\ doc = <<>>
    /\ short_file = AbsentFile
    /\ chunk_size = 0
    /\ api_key = FALSE
    /\ csv = <<>>
    /\ runs = 0
    /\ pc = "calculate_end_date"
    /\ pdf_files = <<>>
    /\ pdf_file = None
    /\ extracted_data = EmptyDict
    /\ short_pdf_path = None
    /\ pages_to_keep = <<>>
    /\ llm_response = NoResponse
    /\ important_pages = {}
    /\ page_chunks = <<>>
    /\ future = <<>>
    /\ cache_hit = FALSE
    /\ create_outcome = "not_called"
    /\ scans = 0
    /\ writes_ok = 0
    /\ model_calls = 0
    /\ rows_appended = 0
    /\ arg_start_date \in StartDateStrs
    /\ arg_duration \in DurationStrs
    /\ end_date = NotCalled
    /\ verify_end_date = NotCalled

\* A call of calculate_end_date of process_contracts.py; an exception that
\* leaves it is recorded as Raised.
CalculateEndDate ==
    /\ pc = "calculate_end_date"
    /\ end_date = NotCalled
    /\ end_date' = calculate_end_date(arg_start_date, arg_duration)
    /\ UNCHANGED <<pipelineVars, arg_start_date, arg_duration, verify_end_date>>

\* A call of calculate_end_date of verify_end_date_calculation.py.
VerifyCalculateEndDate ==
    /\ pc = "calculate_end_date"
    /\ verify_end_date = NotCalled
    /\ verify_end_date' = verify_calculate_end_date(arg_start_date, arg_duration)
    /\ UNCHANGED <<pipelineVars, arg_start_date, arg_duration, end_date>>

NextDate ==
    \/ CalculateEndDate
    \/ VerifyCalculateEndDate

SpecDate == InitDate /\ [][NextDate]_vars

\* ======================================================= properties: scan
\* The state in which find_important_pages has just returned its list.
ScanReturned == pc = "create_short_pdf"

Merged == { c \in DOMAIN future : future[c].status = "merged" }
Logged == { c \in DOMAIN future : future[c].status = "logged" }

\* Page p of a document matches some registered search term.
Matches(pages, p) == \E term \in SEARCH_TERMS : term \in PageText(pages[p + 1]).terms

\* What a chunk that runs to its end finds: its matching pages and their
\* successors in the document.
ChunkFinds(pages, chunk) ==
    { q \in 0..(Len(pages) - 1) :
        \E p \in chunk.start..(chunk.end - 1) :
            Matches(pages, p) /\ (q = p \/ q = p + 1) }

StrictlyAscending(list) ==
    \A i \in DOMAIN list : \A j \in DOMAIN list : i < j => list[i] < list[j]

\* C1: for a document of at least two pages, whatever the chunk size and
\* whichever chunks raise, the returned list contains index 0 and index 1.
C1_FirstTwoPages ==
    (ScanReturned /\ Len(doc) >= 2) =>
        (0 \in SeqRange(pages_to_keep) /\ 1 \in SeqRange(pages_to_keep))

\* C1 witness: a scan of a document of >= 2 pages whose first two pages
\* match nothing returned, with one chunk raised and one merged.
C1_Witness ==
    /\ ScanReturned
    /\ Len(doc) >= 2
    /\ ~Matches(doc, 0) /\ ~Matches(doc, 1)
    /\ Logged # {}
    /\ Merged # {}

\* C2: the returned list is determined by the document, the chunking and
\* the set of chunks that succeeded, not by the order in which the chunks
\* completed, and it is strictly ascending (hence without duplicates).
C2_OrderIndependent ==
    ScanReturned =>
        /\ SeqRange(pages_to_keep) =
             {0, 1} \cup UNION { ChunkFinds(doc, PageChunks(Len(doc), chunk_size)[c]) : c \in Merged }
        /\ StrictlyAscending(pages_to_keep)

\* C2 witness: two chunks that both found pages were merged, the
\* later-submitted one among them, and the list has a page beyond the seed.
C2_Witness ==
    /\ ScanReturned
    /\ \E c1 \in Merged : \E c2 \in Merged :
         /\ c1 < c2
         /\ future[c1].local # {}
         /\ future[c2].local # {}
         /\ future[c2].local # future[c1].local
    /\ Len(pages_to_keep) >= 3

\* C3: when a chunk raises the scan still returns, and the list is the
\* sorted union of {0, 1} with the local sets of exactly the chunks that did
\* not raise: nothing of the failed chunk's local set is added and nothing
\* of the others is lost.
C3_FailedChunkExcluded ==
    (ScanReturned /\ Logged # {}) =>
        /\ SeqRange(pages_to_keep) = {0, 1} \cup UNION { future[c].local : c \in Merged }
        /\ StrictlyAscending(pages_to_keep)
        /\ Merged \cup Logged = DOMAIN future

\* C3 witness: the scan returned although a chunk raised after it had
\* matched a page, and a page that chunk had collected is not in the list.
C3_Witness ==
    /\ ScanReturned
    /\ \E c \in Logged : \E p \in future[c].local : p \notin SeqRange(pages_to_keep)

\* C4: when no chunk raises, the list is sorted({0, 1} + matching pages +
\* their successors that exist), the chunks partition [0, n), and the list
\* does not depend on chunk_size.
C4_ExactResult ==
    (ScanReturned /\ Logged = {}) =>
        /\ SeqRange(pages_to_keep) =
             {0, 1} \cup { p \in 0..(Len(doc) - 1) : Matches(doc, p) }
                    \cup { p + 1 : p \in { q \in 0..(Len(doc) - 2) : Matches(doc, q) } }
        /\ StrictlyAscending(pages_to_keep)
        /\ \A p \in 0..(Len(doc) - 1) :
             Cardinality({ c \in DOMAIN page_chunks :
                             page_chunks[c].start <= p /\ p < page_chunks[c].end }) = 1
        /\ \A c \in DOMAIN page_chunks :
             /\ 0 <= page_chunks[c].start
             /\ page_chunks[c].start < page_chunks[c].end
             /\ page_chunks[c].end <= Len(doc)

\* C4 witness: the only match is on the last page of a chunk and the page
\* it adds, beyond the seed, is the first page of the next chunk.
C4_Witness ==
    /\ ScanReturned
    /\ Logged = {}
    /\ \E c \in DOMAIN page_chunks :
         /\ c + 1 \in DOMAIN page_chunks
         /\ page_chunks[c].end >= 2
         /\ Matches(doc, page_chunks[c].end - 1)
         /\ ~Matches(doc, page_chunks[c].end)
         /\ page_chunks[c].end \in SeqRange(pages_to_keep)

\* C5: every index of the returned list is less than the page count, also
\* for documents of 0 or 1 pages.
C5_IndicesBelowPageCount ==
    ScanReturned => \A i \in DOMAIN pages_to_keep : pages_to_keep[i] < Len(doc)

\* ==================================================== properties: reducer
\* The states of a process_contract call after create_short_pdf returned.
AfterCreate == pc \in {"path_check", "extract_data_with_llm", "parse_response", "returned"}

\* C6: the reduced document written for a page list holds exactly the
\* source pages whose index is in the list and below the page count, each
\* once, in ascending order; larger indices are skipped without an error.
C6_ReducedDocumentPages ==
    (AfterCreate /\ create_outcome = "ok") =>
        /\ short_file.state = "complete"
        /\ SeqRange(short_file.pages) = { p \in SeqRange(pages_to_keep) : p < Len(doc) }
        /\ StrictlyAscending(short_file.pages)

\* C6 witness: a reduced document was written from a list holding an index
\* that is not a page of the source, and it holds a page.
C6_Witness ==
    /\ AfterCreate
    /\ create_outcome = "ok"
    /\ \E i \in DOMAIN pages_to_keep : pages_to_keep[i] >= Len(doc)
    /\ short_file.pages # <<>>

\* ================================================== properties: pipeline
ArtifactNonEmpty == short_file.state \in {"preexisting", "partial", "complete"}

\* The steps of a process_contract call after its entry.
InCall == pc \in {"path_check", "extract_data_with_llm", "parse_response"}

\* C7 as claimed: a call that finds a non-empty artifact neither scans nor
\* writes and leaves the artifact unchanged, and two runs in a row on the
\* same document perform at most one scan and one write.
C7_AtMostOneScanInTwoRuns ==
    runs <= 2 => scans <= 1

\* C7 as amended: a call that finds a non-empty artifact goes straight to
\* extraction with that artifact: no step of it scans, writes or changes the
\* artifact.  A scan only starts while the artifact is absent or empty, and
\* over any number of runs at most one create_short_pdf completes; a second
\* scan happens exactly when the earlier run left no non-empty artifact.
C7_CacheShortCircuit ==
    [][ /\ ((pc = "process_contract" /\ ArtifactNonEmpty) \/ (InCall /\ cache_hit)) =>
             /\ short_file' = short_file
             /\ scans' = scans
             /\ writes_ok' = writes_ok
             /\ create_outcome' = "not_called"
             /\ pc' \in {"path_check", "extract_data_with_llm", "parse_response", "returned"}
             /\ short_pdf_path' = ShortPath
        /\ scans' > scans => ~ArtifactNonEmpty
        /\ writes_ok' > writes_ok => ~ArtifactNonEmpty
        /\ writes_ok' <= 1
      ]_vars

\* C7 witness: the second run reuses the artifact the first run wrote, after
\* one scan and one write, and is about to call the model.
C7_Witness ==
    /\ runs = 2
    /\ pc = "extract_data_with_llm"
    /\ cache_hit
    /\ short_file.state = "complete"
    /\ scans = 1
    /\ writes_ok = 1

\* A loop iteration of main for a document has ended (normally or by an
\* uncaught exception).
IterationEnded ==
    /\ pc \in {"for_pdf_file", "crashed"}
    /\ Len(pdf_files) < Len(dir_pdfs)

HeaderOnly == \A i \in DOMAIN csv : csv[i] = Header

\* C8: every document the batch driver processes yields exactly one
\* appended row, whatever the outcome of its pipeline.
C8_ExactlyOneRow ==
    IterationEnded => rows_appended = 1

\* C9: without the API credential the model is never called and no row is
\* appended for the document.
C9_NoKeyNoRow ==
    ~api_key => (model_calls = 0 /\ HeaderOnly)

\* C10: a failing create_short_pdf returns None instead of raising and the
\* call then ends without extraction; every model call happens in a
\* process_contract call that reused a non-empty artifact or whose
\* create_short_pdf succeeded.
C10_NoExtractionWithoutReducedDocument ==
    [][ /\ model_calls' # model_calls =>
             \/ (cache_hit /\ ArtifactNonEmpty)
             \/ (create_outcome = "ok" /\ short_file.state = "complete")
        /\ (pc = "create_short_pdf" /\ create_outcome' = "failed") =>
             (pc' = "path_check" /\ short_pdf_path' = None)
        /\ (pc = "path_check" /\ create_outcome = "failed") =>
             (pc' = "returned" /\ model_calls' = model_calls /\ extracted_data' = EmptyDict)
      ]_vars

\* C10 witness: with the credential set, a call whose create_short_pdf
\* failed part-way has returned without any model call.
C10_Witness ==
    /\ api_key
    /\ pc = "returned"
    /\ create_outcome = "failed"
    /\ short_file.state = "partial"
    /\ model_calls = 0

\* ========================================= properties: calculate_end_date
\* The start date each function parsed from its argument (NoDate if none).
StartParsed ==
    IF arg_start_date.t = "str"
         /\ (Strptime(arg_start_date.v, "%B %d, %Y") \/ Strptime(arg_start_date.v, "%Y-%m-%d"))
      THEN <<arg_start_date.v.y, arg_start_date.v.m, arg_start_date.v.d>>
      ELSE NoDate
VerifyStartParsed ==
    IF arg_start_date.t = "str" THEN ParseFrom(Cleaned(arg_start_date.v), 1) ELSE NoDate

\* The duration is a month count each function reads.
MonthCount == arg_duration.t = "str" /\ DurationMatch(arg_duration.v) /\ arg_duration.v.unit = "month"
VerifyMonthCount == arg_duration.t = "str" /\ DurationSearch(arg_duration.v) /\ arg_duration.v.unit = "month"

\* The date N months after start: month ((m-1+N) mod 12)+1, year
\* y + (m-1+N) div 12, day min(d, days in that month).
MonthsAfter(start, N) ==
    LET month == ((start[2] - 1 + N) % 12) + 1
        year == start[1] + ((start[2] - 1 + N) \div 12)
    IN  <<year, month, Min(start[3], DaysInMonth(year, month))>>

ClampedIn(outcome, fmt, start) ==
    LET target == MonthsAfter(start, arg_duration.v.n)
    IN  target[1] <= MAXYEAR =>
          outcome = Returned(PyStr(DateStr(fmt, target[1], target[2], target[3])))

\* C11 for calculate_end_date of process_contracts.py alone.
ClampedProcess ==
    (end_date # NotCalled /\ StartParsed # NoDate /\ MonthCount)
        => ClampedIn(end_date, "%Y-%m-%d", StartParsed)
\* C11 for calculate_end_date of verify_end_date_calculation.py alone.
ClampedVerify ==
    (verify_end_date # NotCalled /\ VerifyStartParsed # NoDate /\ VerifyMonthCount)
        => ClampedIn(verify_end_date, "%d-%m-%Y", VerifyStartParsed)

\* C11: for every parsed start date (y, m, d) and every month count N >= 0
\* whose target month lies in the calendar range, both calculate_end_date
\* functions return the date N months later with the day clamped to the
\* length of the target month.
C11_MonthClamp == ClampedProcess /\ ClampedVerify

Sentinel(txt) == Returned(PyStr(Text(txt)))
BothStr == arg_start_date.t = "str" /\ arg_duration.t = "str"
\* The duration string has no integer magnitude followed by a unit.
NoMagnitude == arg_duration.v.k = "text"
\* The duration string has an integer magnitude and a unit that is neither
\* day nor month ("5 years").
OtherUnit == arg_duration.v.k = "duration" /\ arg_duration.v.unit \notin {"day", "month"}

StartSentinel(outcome, start) ==
    start = NoDate => outcome = Sentinel("Invalid Start Date Format")
FormatSentinel(outcome, start) ==
    (start # NoDate /\ NoMagnitude) => outcome = Sentinel("Invalid Duration Format")
UnitSentinel(outcome, start) ==
    (start # NoDate /\ OtherUnit) => outcome = Sentinel("Invalid Duration Unit")

\* The first two sentinels of C12, for both functions.
StartAndFormatSentinels ==
    /\ (BothStr /\ end_date # NotCalled) =>
          StartSentinel(end_date, StartParsed) /\ FormatSentinel(end_date, StartParsed)
    /\ (BothStr /\ verify_end_date # NotCalled) =>
          /\ StartSentinel(verify_end_date, VerifyStartParsed)
          /\ FormatSentinel(verify_end_date, VerifyStartParsed)

\* C12: a start date in no accepted format gives "Invalid Start Date
\* Format", a duration without an integer magnitude and a unit gives "Invalid
\* Duration Format", and a duration with an integer magnitude and a unit
\* other than day or month gives "Invalid Duration Unit".
C12_ThreeSentinels ==
    /\ StartAndFormatSentinels
    /\ (BothStr /\ end_date # NotCalled) => UnitSentinel(end_date, StartParsed)
    /\ (BothStr /\ verify_end_date # NotCalled) =>
          UnitSentinel(verify_end_date, VerifyStartParsed)

\* No call of either function returns "Invalid Duration Unit".
UnitSentinelNeverReturned ==
    /\ end_date # Sentinel("Invalid Duration Unit")
    /\ verify_end_date # Sentinel("Invalid Duration Unit")

\* C13: for every start-date string and every duration string, also when the
\* resulting year passes 9999, calculate_end_date returns a string and does
\* not raise.
C13_NeverRaises ==
    BothStr => ~end_date.raised /\ ~verify_end_date.raised

\* Outside results past the last calendar year, and the verify function's
\* December 9999, a call on two strings does not raise.
RaisesOnlyPastMaxYear ==
    /\ (BothStr /\ end_date.raised) =>
          /\ StartParsed # NoDate
          /\ \/ AddDays(StartParsed[1], StartParsed[2], StartParsed[3], arg_duration.v.n) = NoDate
             \/ MonthsAfter(StartParsed, arg_duration.v.n)[1] > MAXYEAR
    /\ (BothStr /\ verify_end_date.raised) =>
          /\ VerifyStartParsed # NoDate
          /\ \/ AddDays(VerifyStartParsed[1], VerifyStartParsed[2], VerifyStartParsed[3],
                        arg_duration.v.n) = NoDate
             \/ MonthsAfter(VerifyStartParsed, arg_duration.v.n)[1] > MAXYEAR
             \/ /\ MonthsAfter(VerifyStartParsed, arg_duration.v.n)[1] = MAXYEAR
                /\ MonthsAfter(VerifyStartParsed, arg_duration.v.n)[2] = 12

\* ============================================ properties: model response
\* process_contract has returned a dict made on a decode failure of a text
\* the model produced.
DecodeFailed ==
    /\ pc = "returned"
    /\ llm_response \notin {NoResponse, ErrNoKey, ErrLlm}
    /\ extracted_data.t = "dict"
    /\ "LLM_Raw_Response" \in DOMAIN extracted_data.v

\* The fields asked of the model, as columns (lines 288-305).
SchemaColumns == SeqRange(OutputColumns) \ {"File Name", "End Date"}

\* A text in both fences is decoded without them.
UnwrappedBeforeDecoding ==
    (pc = "parse_response" /\ llm_response.open /\ llm_response.close /\ llm_response.valid)
        => (pc' = "returned" /\ "LLM_Raw_Response" \notin DOMAIN extracted_data'.v)

\* On a decode failure main goes on and appends a row whose schema columns
\* are all empty.
EmptyRowEmitted ==
    DecodeFailed =>
        /\ pc' = "for_pdf_file"
        /\ Len(csv') = Len(csv) + 1
        /\ \A col \in SchemaColumns : csv'[Len(csv')][col] = EmptyStr

\* On a decode failure the appended row holds the model text.
RawTextInRow ==
    DecodeFailed =>
        /\ Len(csv') = Len(csv) + 1
        /\ "LLM_Raw_Response" \in DOMAIN csv'[Len(csv')]
        /\ csv'[Len(csv')]["LLM_Raw_Response"] = PyText(llm_response)

UnwrapAndEmptyRow == [][UnwrappedBeforeDecoding /\ EmptyRowEmitted]_vars

\* C14: output in a ```json ... ``` fence is unwrapped before decoding; when
\* the output cannot be decoded, the run goes on and the appended row holds
\* the model text under LLM_Raw_Response with every schema column empty.
C14_RawResponseInRow ==
    [][UnwrappedBeforeDecoding /\ EmptyRowEmitted /\ RawTextInRow]_vars

\* C15: whatever the model text, also one that decodes to a JSON value that
\* is not an object, process_contract returns a mapping with an "End Date"
\* entry after parsing it, and main's row construction does not raise.
C15_MappingWithEndDate ==
    /\ (pc = "returned" /\ llm_response # NoResponse) =>
          (extracted_data.t = "dict" /\ "End Date" \in DOMAIN extracted_data.v)
    /\ pc # "crashed"

\* A value that is not a dict reaches main only as decoded model output.
ReturnedIsDictOrDecoded ==
    pc = "returned" =>
       \/ extracted_data.t = "dict"
       \/ (llm_response.valid /\ extracted_data = llm_response.value)

\* ============================================== properties: failed write
\* The artifact is the output of a create_short_pdf call that completed, or
\* was there before the first run.
ArtifactWhole == short_file.state \in {"preexisting", "complete"}

\* C16: a create_short_pdf call that fails leaves no non-empty file at the
\* _short.pdf path; the cache check of a call succeeds only on an artifact
\* that pre-existed or that a completed create_short_pdf wrote, so what is
\* sent to the model is never the output of a failed write.
C16_NoFailedWriteReused ==
    /\ (pc = "path_check" /\ create_outcome = "failed") => ~ArtifactNonEmpty
    /\ (InCall /\ cache_hit) => ArtifactWhole
    /\ pc = "extract_data_with_llm" => ArtifactWhole

\* An artifact that is not whole comes only from a failed write, and a call
\* whose own create_short_pdf failed sends nothing to the model.
PartialOnlyReusedLater ==
    (pc = "extract_data_with_llm" /\ ~ArtifactWhole) =>
        (cache_hit /\ short_file.state = "partial" /\ runs >= 2)

====
